---- MODULE Spec2Model ----
(***************************************************************************)
(* Model of src/simple-splat-loader.js: loadSimpleSplatFromArrayBuffer,    *)
(* isPlyBuffer and parsePly.  A buffer is a sequence of bytes (0..255);    *)
(* text is the same sequence, since TextDecoder('ascii') maps one byte to  *)
(* one character.  One call of the loader is run as a state machine whose  *)
(* steps are the loader's loop iterations.                                 *)
(***************************************************************************)
EXTENDS Integers, Sequences, FiniteSets, TLC

(***************************************************************************)
(* String literals of the source, as bytes.                                *)
(***************************************************************************)
s_ply == <<112, 108, 121>>
s_end_header == <<101, 110, 100, 95, 104, 101, 97, 100, 101, 114>>
s_format == <<102, 111, 114, 109, 97, 116>>
s_element == <<101, 108, 101, 109, 101, 110, 116>>
s_vertex == <<118, 101, 114, 116, 101, 120>>
s_property == <<112, 114, 111, 112, 101, 114, 116, 121>>
s_ascii == <<97, 115, 99, 105, 105>>
s_binary_little_endian == <<98, 105, 110, 97, 114, 121, 95, 108, 105, 116, 116, 108, 101, 95, 101, 110, 100, 105, 97, 110>>
s_binary_big_endian == <<98, 105, 110, 97, 114, 121, 95, 98, 105, 103, 95, 101, 110, 100, 105, 97, 110>>
s_x == <<120>>
s_y == <<121>>
s_z == <<122>>
s_red == <<114, 101, 100>>
s_green == <<103, 114, 101, 101, 110>>
s_blue == <<98, 108, 117, 101>>
s_r == <<114>>
s_g == <<103>>
s_b == <<98>>
s_float == <<102, 108, 111, 97, 116>>
s_float32 == <<102, 108, 111, 97, 116, 51, 50>>
s_double == <<100, 111, 117, 98, 108, 101>>
s_float64 == <<102, 108, 111, 97, 116, 54, 52>>
s_uchar == <<117, 99, 104, 97, 114>>
s_uint8 == <<117, 105, 110, 116, 56>>
s_char == <<99, 104, 97, 114>>
s_int8 == <<105, 110, 116, 56>>
s_ushort == <<117, 115, 104, 111, 114, 116>>
s_uint16 == <<117, 105, 110, 116, 49, 54>>
s_short == <<115, 104, 111, 114, 116>>
s_int16 == <<105, 110, 116, 49, 54>>
s_uint == <<117, 105, 110, 116>>
s_uint32 == <<117, 105, 110, 116, 51, 50>>
s_int == <<105, 110, 116>>
s_int32 == <<105, 110, 116, 51, 50>>
s_Infinity == <<73, 110, 102, 105, 110, 105, 116, 121>>

\* A token the source reads past the end of an array (tokens[1], tokens[2]):
\* JavaScript's undefined, which equals no string.
Undefined == <<-1>>

(***************************************************************************)
(* Text primitives of the JavaScript runtime, as the source uses them.     *)
(***************************************************************************)
Min(a, b) == IF a < b THEN a ELSE b

\* The characters the regular expression \s and String.trim() take as white
\* space, among those a byte decodes to: TAB LF VT FF CR SPACE and, the label
\* 'ascii' being windows-1252, NBSP.
IsSpace(c) == (c >= 9 /\ c <= 13) \/ c = 32 \/ c = 160

IsDigit(c) == c >= 48 /\ c <= 57

\* buffer.slice(0, n), text.slice(0, n)
SliceTo(s, n) == SubSeq(s, 1, Min(n, Len(s)))

\* text.slice(n), buffer.slice(n): what follows the first n elements
SliceFrom(s, n) == SubSeq(s, n + 1, Len(s))

\* text.startsWith(p)
StartsWith(s, p) == Len(s) >= Len(p) /\ SubSeq(s, 1, Len(p)) = p

\* text.indexOf(p): the 0-based index of the first occurrence, or -1
IndexOf(s, p) ==
    LET hits == {i \in 1..(Len(s) - Len(p) + 1) :
                    /\ s[i] = p[1]
                    /\ SubSeq(s, i, i + Len(p) - 1) = p}
    IN  IF hits = {} THEN -1
        ELSE (CHOOSE i \in hits : \A j \in hits : i <= j) - 1

\* array.indexOf(x) on an array of strings: 0-based, or -1
ArrayIndexOf(a, x) ==
    LET hits == {i \in 1..Len(a) : a[i] = x}
    IN  IF hits = {} THEN -1
        ELSE (CHOOSE i \in hits : \A j \in hits : i <= j) - 1

\* The k-th smallest element of a finite set of integers.
Kth(S, k) == CHOOSE i \in S : Cardinality({j \in S : j < i}) = k - 1

\* The first index from i on (1-based) of a line feed, of a character that
\* is not white space, of one that is; Len(s) + 1 if there is none.
NextLF(s, i) ==
    CHOOSE j \in i..(Len(s) + 1) :
        (j = Len(s) + 1 \/ s[j] = 10) /\ \A q \in i..(j - 1) : s[q] # 10
NextInk(s, i) ==
    CHOOSE j \in i..(Len(s) + 1) :
        (j = Len(s) + 1 \/ ~IsSpace(s[j])) /\ \A q \in i..(j - 1) : IsSpace(s[q])
NextSpace(s, i) ==
    CHOOSE j \in i..(Len(s) + 1) :
        (j = Len(s) + 1 \/ IsSpace(s[j])) /\ \A q \in i..(j - 1) : ~IsSpace(s[q])

\* text.split(/\r?\n/): the pieces between line feeds, a carriage return
\* right before a line feed belonging to the separator.
RECURSIVE SplitLinesFrom(_, _)
SplitLinesFrom(s, i) ==
    LET p == NextLF(s, i)
    IN  IF p > Len(s) THEN << SubSeq(s, i, Len(s)) >>
        ELSE << SubSeq(s, i, IF p - 1 >= i /\ s[p - 1] = 13 THEN p - 2 ELSE p - 1) >>
               \o SplitLinesFrom(s, p + 1)

SplitLines(s) == SplitLinesFrom(s, 1)

\* line.trim()
Trim(s) ==
    LET a == NextInk(s, 1)
    IN  IF a > Len(s) THEN <<>>
        ELSE SubSeq(s, a, CHOOSE j \in a..Len(s) :
                              ~IsSpace(s[j]) /\ \A q \in (j + 1)..Len(s) : IsSpace(s[q]))

\* line.trim().split(/\s+/): the maximal runs of characters that are not
\* white space; the empty string splits into one empty token, never into none.
RECURSIVE TokensFrom(_, _)
TokensFrom(t, i) ==
    LET a == NextInk(t, i)
        b == NextSpace(t, a)
    IN  IF a > Len(t) THEN <<>>
        ELSE << SubSeq(t, a, b - 1) >> \o TokensFrom(t, b)

Tokens(line) ==
    LET t == Trim(line)
    IN  IF t = <<>> THEN << <<>> >> ELSE TokensFrom(t, 1)

\* tokens[i] with a 0-based index: undefined past the end
TokenAt(tokens, i) == IF i >= 0 /\ i < Len(tokens) THEN tokens[i + 1] ELSE Undefined

(***************************************************************************)
(* Numbers.  A JavaScript number the loader produces is kept as a record   *)
(* [k, v, d]: k = "num" is the decimal v[1] * 10^v[2] (v[1] not a multiple *)
(* of ten, unless zero), k = "nan" and k = "inf" are NaN and the           *)
(* infinities, and k = "f32", "f64", "u32", "i32" is the number whose      *)
(* binary representation of that type is the bytes v, most significant     *)
(* first.  d is 1, or 255 for the number divided by 255.  A Float32Array   *)
(* element holds the float nearest to such a number, a function of it.     *)
(***************************************************************************)
RECURSIVE Normalize(_, _)
Normalize(m, e) ==
    IF m = 0 THEN <<0, 0>>
    ELSE IF m % 10 = 0 THEN Normalize(m \div 10, e + 1)
    ELSE <<m, e>>

Val(k, v) == [k |-> k, v |-> v, d |-> 1]
Num(n) == Val("num", Normalize(n, 0))
NaN == Val("nan", <<>>)

\* value / 255.0 (NaN / 255 is NaN)
Div255(x) == IF x.k = "nan" THEN x ELSE [x EXCEPT !.d = 255]

\* The value of a run of decimal digits.
RECURSIVE DigitsValue(_)
DigitsValue(ds) ==
    IF ds = <<>> THEN 0
    ELSE 10 * DigitsValue(SubSeq(ds, 1, Len(ds) - 1)) + (ds[Len(ds)] - 48)

\* The length of the run of decimal digits of s that starts at index from.
DigitRun(s, from) ==
    LET stop == {i \in from..Len(s) : ~IsDigit(s[i])}
    IN  IF stop = {} THEN Len(s) + 1 - from
        ELSE (CHOOSE i \in stop : \A j \in stop : i <= j) - from

IsSign(c) == c = 43 \/ c = 45

\* parseInt(str, 10): an optional sign and the longest run of digits that
\* follows; NaN (nan = TRUE) without a digit, and for undefined.
ParseInt(str) ==
    LET signed == Len(str) >= 1 /\ IsSign(str[1])
        first  == IF signed THEN 2 ELSE 1
        n      == DigitRun(str, first)
        mag    == DigitsValue(SubSeq(str, first, first + n - 1))
    IN  IF str = Undefined \/ n = 0 THEN [nan |-> TRUE, n |-> 0]
        ELSE [nan |-> FALSE, n |-> IF signed /\ str[1] = 45 THEN -mag ELSE mag]

\* parseFloat(str): the longest prefix that is a decimal literal
\* [+-] digits [. digits] [e [+-] digits], or a signed Infinity.
ParseFloat(str) ==
    LET signed == Len(str) >= 1 /\ IsSign(str[1])
        sgn    == IF signed /\ str[1] = 45 THEN -1 ELSE 1
        first  == IF signed THEN 2 ELSE 1
        na     == DigitRun(str, first)
        dot    == first + na
        hasDot == dot <= Len(str) /\ str[dot] = 46
        nb     == IF hasDot THEN DigitRun(str, dot + 1) ELSE 0
        digits == SubSeq(str, first, first + na - 1)
                     \o (IF hasDot THEN SubSeq(str, dot + 1, dot + nb) ELSE <<>>)
        epos   == IF hasDot THEN dot + nb + 1 ELSE dot
        hasE   == epos <= Len(str) /\ str[epos] \in {69, 101}
        esign  == hasE /\ epos + 1 <= Len(str) /\ IsSign(str[epos + 1])
        efirst == IF esign THEN epos + 2 ELSE epos + 1
        ne     == IF hasE THEN DigitRun(str, efirst) ELSE 0
        emag   == DigitsValue(SubSeq(str, efirst, efirst + ne - 1))
        exp    == IF ne = 0 THEN 0
                  ELSE IF esign /\ str[epos + 1] = 45 THEN -emag ELSE emag
    IN  IF str = Undefined THEN NaN
        ELSE IF StartsWith(SliceFrom(str, first - 1), s_Infinity) THEN Val("inf", <<sgn>>)
        ELSE IF na + nb = 0 THEN NaN
        ELSE Val("num", Normalize(sgn * DigitsValue(digits), exp - nb))

(***************************************************************************)
(* isPlyBuffer and the header part of parsePly.                            *)
(***************************************************************************)
SniffWindow == 1024
HeaderWindow == 65536

isPlyBuffer(buf) == StartsWith(SliceTo(buf, SniffWindow), s_ply)

textHeaderOf(buf) == SliceTo(buf, HeaderWindow)

headerEndIndexOf(buf) == IndexOf(textHeaderOf(buf), s_end_header)

headerLinesOf(buf) ==
    SplitLines(SliceTo(textHeaderOf(buf), headerEndIndexOf(buf) + Len(s_end_header)))

\* The header loop's variables before the first line: format = null (kept as
\* undefined: both are falsy and equal no string), vertexCount = 0.
NoFormat == Undefined
ZeroCount == [nan |-> FALSE, n |-> 0]

IsVertexElement(tokens) ==
    TokenAt(tokens, 0) = s_element /\ TokenAt(tokens, 1) = s_vertex

\* LeavesVertexElement for a loop that never clears the flag.
LeavesVertexElement_Never(tokens) == FALSE

LeavesVertexElement(tokens) ==
    TokenAt(tokens, 0) = s_element /\ TokenAt(tokens, 1) # s_vertex

CollectsProperty(inVertex, tokens) ==
    inVertex /\ TokenAt(tokens, 0) = s_property

\* HeaderError without its check of vertexCount.
HeaderError_NoCountCheck(fmt, vc) ==
    IF fmt = Undefined THEN "PLY format not specified in header." ELSE ""

\* !format, !vertexCount: the two checks after the header loop; "" is no error.
HeaderError(fmt, vc) ==
    IF fmt = Undefined THEN "PLY format not specified in header."
    ELSE IF vc.nan \/ vc.n = 0 THEN "PLY vertex element not found or vertex count is 0."
    ELSE ""

\* headerBytes + textHeader.slice(headerLength).search(/\S|$/)
dataStartOf(buf) ==
    LET headerLength == headerEndIndexOf(buf) + Len(s_end_header)
        rest == SliceFrom(textHeaderOf(buf), headerLength)
        ink  == {i \in 1..Len(rest) : ~IsSpace(rest[i])}
    IN  headerLength + (IF ink = {} THEN Len(rest)
                        ELSE (CHOOSE i \in ink : \A j \in ink : i <= j) - 1)

\* rIndex, gIndex, bIndex: the long name's index if declared, else the short's
ColorIndex(order, long, short) ==
    IF ArrayIndexOf(order, long) # -1 THEN ArrayIndexOf(order, long)
    ELSE ArrayIndexOf(order, short)

rIndexOf(order) == ColorIndex(order, s_red, s_r)
gIndexOf(order) == ColorIndex(order, s_green, s_g)
bIndexOf(order) == ColorIndex(order, s_blue, s_b)

MissingPosition(order) ==
    \/ ArrayIndexOf(order, s_x) = -1
    \/ ArrayIndexOf(order, s_y) = -1
    \/ ArrayIndexOf(order, s_z) = -1

hasColorOf(order) ==
    rIndexOf(order) # -1 /\ gIndexOf(order) # -1 /\ bIndexOf(order) # -1

\* ArrayLength with room for one point more.
ArrayLength_OneMore(vc) == (vc + 1) * 3

\* new Float32Array(vertexCount * 3): zero-filled
ArrayLength(vc) == vc * 3
Zeros(n) == [i \in 1..n |-> Num(0)]

(***************************************************************************)
(* Text mode: one data line.                                               *)
(***************************************************************************)
\* SkipsLine without the check of the number of tokens.
SkipsLine_BlankOnly(line, P) == Trim(line) = <<>>

\* if (!line.trim()) continue;  if (tokens.length < P) continue;
SkipsLine(line, P) == Trim(line) = <<>> \/ Len(Tokens(line)) < P

\* Writing three values at point v (0-based) of a flat array.
SetTriple(arr, v, a, b, c) ==
    [arr EXCEPT ![3 * v + 1] = a, ![3 * v + 2] = b, ![3 * v + 3] = c]

AsciiPosition(tokens, order) ==
    << ParseFloat(TokenAt(tokens, ArrayIndexOf(order, s_x))),
       ParseFloat(TokenAt(tokens, ArrayIndexOf(order, s_y))),
       ParseFloat(TokenAt(tokens, ArrayIndexOf(order, s_z))) >>

AsciiColor(tokens, order) ==
    IF hasColorOf(order)
    THEN << Div255(ParseFloat(TokenAt(tokens, rIndexOf(order)))),
            Div255(ParseFloat(TokenAt(tokens, gIndexOf(order)))),
            Div255(ParseFloat(TokenAt(tokens, bIndexOf(order)))) >>
    ELSE << Num(1), Num(1), Num(1) >>

(***************************************************************************)
(* Binary mode: propertySize, readProperty and one record.                 *)
(***************************************************************************)
\* propertySize with a double taken for 4 bytes.
propertySize_DoubleAs4(type) ==
    CASE type \in {s_short, s_int16, s_ushort, s_uint16} -> 2
      [] type \in {s_char, s_int8, s_uchar, s_uint8} -> 1
      [] OTHER -> 4

propertySize(type) ==
    CASE type \in {s_float, s_float32, s_int, s_int32, s_uint, s_uint32} -> 4
      [] type \in {s_double, s_float64} -> 8
      [] type \in {s_short, s_int16, s_ushort, s_uint16} -> 2
      [] type \in {s_char, s_int8, s_uchar, s_uint8} -> 1
      [] OTHER -> 4

\* The width of the DataView getter readProperty calls for a type.
readSize(type) ==
    CASE type \in {s_float, s_float32} -> 4
      [] type \in {s_double, s_float64} -> 8
      [] type \in {s_uchar, s_uint8} -> 1
      [] type \in {s_char, s_int8} -> 1
      [] type \in {s_ushort, s_uint16} -> 2
      [] type \in {s_short, s_int16} -> 2
      [] type \in {s_uint, s_uint32} -> 4
      [] type \in {s_int, s_int32} -> 4
      [] OTHER -> 4

Reverse(s) == [i \in 1..Len(s) |-> s[Len(s) + 1 - i]]

\* The bytes a getter reads, most significant first.
BytesMSB(view, offset, n, little) ==
    LET raw == SubSeq(view, offset + 1, offset + n)
    IN  IF little THEN Reverse(raw) ELSE raw

\* A DataView getter throws a RangeError unless its n bytes lie in the view.
InView(view, offset, n) == offset >= 0 /\ offset + n <= Len(view)

\* readProperty(type, offset, littleEndian), for a read that lies in the view
readProperty(view, type, offset, little) ==
    LET m(n) == BytesMSB(view, offset, n, little)
    IN  CASE type \in {s_float, s_float32} -> Val("f32", m(4))
          [] type \in {s_double, s_float64} -> Val("f64", m(8))
          [] type \in {s_uchar, s_uint8} -> Num(m(1)[1])
          [] type \in {s_char, s_int8} ->
                 Num(IF m(1)[1] >= 128 THEN m(1)[1] - 256 ELSE m(1)[1])
          [] type \in {s_ushort, s_uint16} -> Num(256 * m(2)[1] + m(2)[2])
          [] type \in {s_short, s_int16} ->
                 Num(IF m(2)[1] >= 128 THEN 256 * m(2)[1] + m(2)[2] - 65536
                     ELSE 256 * m(2)[1] + m(2)[2])
          [] type \in {s_uint, s_uint32} -> Val("u32", m(4))
          [] type \in {s_int, s_int32} -> Val("i32", m(4))
          [] OTHER -> Val("f32", m(4))

\* let bytesPerVertex = 0; for (const t of vertexPropertyTypes) += propertySize(t)
RECURSIVE bytesPerVertexOf(_)
bytesPerVertexOf(types) ==
    IF types = <<>> THEN 0
    ELSE bytesPerVertexOf(SubSeq(types, 1, Len(types) - 1)) + propertySize(types[Len(types)])

\* The record loop's variables at the top of a record.
RecordStart(offset) ==
    [ propertyOffset |-> offset,
      x |-> Num(0), y |-> Num(0), z |-> Num(0),
      r |-> Num(1), g |-> Num(1), b |-> Num(1),
      reads |-> <<>>, thrown |-> FALSE ]

\* A getter call, as the record loop logs it: pass i (1-based) of record v
\* asked for n bytes at view offset at.
ReadOf(v, i, at, n) == [v |-> v, i |-> i, at |-> at, n |-> n]

\* PropertyStep with a getter that yields nothing, instead of throwing, when
\* its bytes do not lie in the view.
PropertyStep_SkipsUnreadable(acc, view, v, i, name, type, little, hasColor) ==
    LET inView == InView(view, acc.propertyOffset, readSize(type))
        value  == IF inView THEN readProperty(view, type, acc.propertyOffset, little)
                  ELSE NaN
    IN  [ propertyOffset |-> acc.propertyOffset + propertySize(type),
          x |-> IF name = s_x THEN value ELSE acc.x,
          y |-> IF name = s_y THEN value ELSE acc.y,
          z |-> IF name = s_z THEN value ELSE acc.z,
          r |-> IF hasColor /\ name \in {s_red, s_r} THEN Div255(value) ELSE acc.r,
          g |-> IF hasColor /\ name \in {s_green, s_g} THEN Div255(value) ELSE acc.g,
          b |-> IF hasColor /\ name \in {s_blue, s_b} THEN Div255(value) ELSE acc.b,
          reads |-> Append(acc.reads, ReadOf(v, i, acc.propertyOffset, readSize(type))),
          thrown |-> FALSE ]

\* Pass i of the loop over the properties of record v; a getter that throws
\* ends the record (and the call).  reads lists the getter calls made.
PropertyStep(acc, view, v, i, name, type, little, hasColor) ==
    IF acc.thrown THEN acc
    ELSE IF ~InView(view, acc.propertyOffset, readSize(type))
    THEN [acc EXCEPT !.thrown = TRUE,
                     !.reads = Append(@, ReadOf(v, i, acc.propertyOffset, readSize(type)))]
    ELSE LET value == readProperty(view, type, acc.propertyOffset, little)
         IN  [ propertyOffset |-> acc.propertyOffset + propertySize(type),
               x |-> IF name = s_x THEN value ELSE acc.x,
               y |-> IF name = s_y THEN value ELSE acc.y,
               z |-> IF name = s_z THEN value ELSE acc.z,
               r |-> IF hasColor /\ name \in {s_red, s_r} THEN Div255(value) ELSE acc.r,
               g |-> IF hasColor /\ name \in {s_green, s_g} THEN Div255(value) ELSE acc.g,
               b |-> IF hasColor /\ name \in {s_blue, s_b} THEN Div255(value) ELSE acc.b,
               reads |-> Append(acc.reads,
                                ReadOf(v, i, acc.propertyOffset, readSize(type))),
               thrown |-> FALSE ]

\* for (let i = 0; i < vertexPropertyOrder.length; i++): the first n passes
RECURSIVE ReadRecord(_, _, _, _, _, _, _)
ReadRecord(n, view, v, order, types, little, offset) ==
    IF n = 0 THEN RecordStart(offset)
    ELSE PropertyStep(ReadRecord(n - 1, view, v, order, types, little, offset),
                      view, v, n, order[n], types[n], little, hasColorOf(order))

(***************************************************************************)
(* The raw branch of loadSimpleSplatFromArrayBuffer.                       *)
(***************************************************************************)
\* new Float32Array(buffer) throws a RangeError unless the byte length is a
\* multiple of 4.
Float32ArrayThrows(buf) == Len(buf) % 4 # 0

\* floats[i], 0-based: the platform's byte order is little-endian
FloatAt(buf, i) == Val("f32", BytesMSB(buf, 4 * i, 4, TRUE))

rawCount(buf) == (Len(buf) \div 4) \div 6

rawPositions(buf) ==
    [j \in 1..(3 * rawCount(buf)) |-> FloatAt(buf, 6 * ((j - 1) \div 3) + ((j - 1) % 3))]

rawColors(buf) ==
    [j \in 1..(3 * rawCount(buf)) |-> FloatAt(buf, 6 * ((j - 1) \div 3) + 3 + ((j - 1) % 3))]

(***************************************************************************)
(* Input buffers.  The loader takes any buffer; the model runs it on the   *)
(* members of a few bounded families.                                      *)
(***************************************************************************)
MaxRawFloats == 13
MaxVertices == 2
MaxCut == 2
MaxHeaderItems == 3
MaxDataLines == 3

LF == <<10>>

RECURSIVE Join(_, _)
Join(parts, sep) ==
    IF parts = <<>> THEN <<>>
    ELSE IF Len(parts) = 1 THEN parts[1]
    ELSE Join(SubSeq(parts, 1, Len(parts) - 1), sep) \o sep \o parts[Len(parts)]

\* A line of a file from its words; a file's lines, each ended by a line feed.
Words(ws) == Join(ws, <<32>>)
TextOf(ls) == IF ls = <<>> THEN <<>> ELSE Join(ls, LF) \o LF

RECURSIVE Dec(_)
Dec(n) == IF n < 10 THEN <<48 + n>> ELSE Dec(n \div 10) \o <<48 + (n % 10)>>

s_1_0 == <<49, 46, 48>>
s_face == <<102, 97, 99, 101>>
s_list == <<108, 105, 115, 116>>
s_comment == <<99, 111, 109, 109, 101, 110, 116>>

FormatLine(f) == Words(<<s_format, f, s_1_0>>)
VertexLine(n) == Words(<<s_element, s_vertex, Dec(n)>>)
PropertyLine(type, name) == Words(<<s_property, type, name>>)
PropertyLines(decls) == [k \in 1..Len(decls) |-> PropertyLine(decls[k][1], decls[k][2])]

\* len bytes, the first one given, the others spread over 0..255.
PatternBytes(len, first) == [k \in 1..len |-> (first + 37 * (k - 1)) % 256]

\* Buffers without the 'ply' mark: every length up to MaxRawFloats floats and
\* a few bytes more.
FirstBytes == {0, 32, 65}
RawInputs ==
    {PatternBytes(4 * f + t, b) : f \in 0..MaxRawFloats, t \in 0..3, b \in FirstBytes}

\* Binary files: a header declaring n vertices of some property list, then a
\* body that is up to MaxCut bytes shorter than n records.
XYZ == << <<s_float, s_x>>, <<s_float, s_y>>, <<s_float, s_z>> >>
RGB == << <<s_uchar, s_red>>, <<s_uchar, s_green>>, <<s_uchar, s_blue>> >>
BinaryDecls ==
    { XYZ \o RGB,
      XYZ,
      << <<s_double, s_x>>, <<s_short, s_y>>, <<s_vertex, s_z>>, <<s_char, s_g>> >>,
      XYZ \o RGB \o << <<s_uchar, s_r>>, <<s_ushort, s_g>>, <<s_uint, s_b>> >>,
      << <<s_uchar, s_r>>, <<s_int, s_g>> >> \o XYZ \o RGB }

\* The byte width of a scalar type, by the table of the format.
TypeWidth(type) ==
    IF type \in {s_double, s_float64} THEN 8
    ELSE IF type \in {s_char, s_int8, s_uchar, s_uint8} THEN 1
    ELSE IF type \in {s_short, s_int16, s_ushort, s_uint16} THEN 2
    ELSE 4

RECURSIVE StrideOfDecls(_)
StrideOfDecls(decls) ==
    IF decls = <<>> THEN 0
    ELSE StrideOfDecls(Tail(decls)) + TypeWidth(decls[1][1])

PlyFile(f, n, decls, body) ==
    TextOf(<<s_ply, FormatLine(f), VertexLine(n)>> \o PropertyLines(decls)
           \o <<s_end_header>>) \o body

BinaryInputs ==
    { PlyFile(f, n, decls, PatternBytes(n * StrideOfDecls(decls) - cut, b)) :
        f \in {s_binary_little_endian, s_binary_big_endian},
        n \in 1..MaxVertices, decls \in BinaryDecls, cut \in 0..MaxCut, b \in FirstBytes }

\* The sequences of at most k different members of S.
RECURSIVE Arrangements(_, _)
Arrangements(S, k) ==
    IF k = 0 THEN {<<>>}
    ELSE {<<>>} \cup UNION {{<<x>> \o rest : rest \in Arrangements(S \ {x}, k - 1)} : x \in S}

RECURSIVE Flatten(_)
Flatten(ss) == IF ss = <<>> THEN <<>> ELSE ss[1] \o Flatten(Tail(ss))

\* Headers: 'ply', then up to MaxHeaderItems of the items below in any order,
\* then 'end_header' or nothing, then one data line.
HeaderItems ==
    { <<FormatLine(s_ascii)>>,
      <<FormatLine(s_list)>>,
      <<VertexLine(1)>>,
      <<VertexLine(0)>>,
      <<Words(<<s_element, s_face, Dec(1)>>),
        Words(<<s_property, s_list, s_uchar, s_int, s_z>>)>>,
      PropertyLines(XYZ),
      PropertyLines(SubSeq(XYZ, 1, 2)) }

OneDataLine == TextOf(<< Words(<<Dec(1), Dec(2), Dec(3)>>) >>)

HeaderInputs ==
    { TextOf(<<s_ply>> \o Flatten(items) \o ender) \o OneDataLine :
        items \in Arrangements(HeaderItems, MaxHeaderItems),
        ender \in {<<>>, <<s_end_header>>} }

\* Text files: a header declaring n vertices of some property list, then up
\* to MaxDataLines data lines.
TextDecls ==
    { XYZ \o RGB,
      << <<s_uchar, s_r>>, <<s_uchar, s_g>> >> \o XYZ \o RGB,
      XYZ \o SubSeq(RGB, 1, 2) }

DataLines ==
    { <<>>,
      Words(<<Dec(1), Dec(2), Dec(3)>>),
      Words(<<Dec(4), Dec(5), Dec(6), Dec(7), Dec(8), Dec(9)>>),
      Words(<<Dec(10), Dec(20), Dec(30), Dec(40), Dec(50), Dec(60), Dec(70), Dec(80)>>) }

RECURSIVE SeqsUpTo(_, _)
SeqsUpTo(S, k) ==
    IF k = 0 THEN {<<>>}
    ELSE {<<>>} \cup {<<x>> \o rest : x \in S, rest \in SeqsUpTo(S, k - 1)}

TextInputs ==
    { PlyFile(s_ascii, n, decls, TextOf(data)) :
        n \in 1..MaxVertices, decls \in TextDecls, data \in SeqsUpTo(DataLines, MaxDataLines) }

\* Long headers: a comment line pads the header so that 'end_header' ends
\* shift bytes after the end of the header window (before it, if negative).
PaddedHeader(pad) ==
    TextOf(<< s_ply, Words(<<s_comment, [k \in 1..pad |-> 97]>>),
              FormatLine(s_ascii), VertexLine(1) >> \o PropertyLines(XYZ))

WindowInputs ==
    { PaddedHeader(HeaderWindow + shift - Len(s_end_header) - Len(PaddedHeader(0)))
        \o s_end_header \o LF \o OneDataLine : shift \in {-1, 0, 1, 2} }

Inputs == RawInputs \cup BinaryInputs \cup HeaderInputs \cup TextInputs \cup WindowInputs

(***************************************************************************)
(* One call of loadSimpleSplatFromArrayBuffer(buffer, material).           *)
(***************************************************************************)
VARIABLES
    buffer,               \* the argument
    pc,                   \* "start", "header", "ascii", "binary", "done"
    headerLines, lineIdx, \* the header loop: its lines, the next one (1-based)
    format, vertexCount, vertexPropertyOrder, vertexPropertyTypes, inVertexElement,
    dataStart,
    positions, colors, count,
    lines, li,            \* text mode: the data lines, the next one (1-based)
    v, offset,            \* the point or record loop
    reads,                \* binary mode: the getter calls of the last record
    outcome,              \* "pending", "points", "null", "error"
    error                 \* the message of the error thrown

\* The page around the loader (src/viewer.js); a call of the loader on its
\* own leaves it alone.
VARIABLES
    viewerState,          \* its modelUrl field
    splatPoints,          \* the points object on display, or NoPoints
    splatGroup,           \* the children of the group
    loads,                \* the calls that load a model, in the order they began
    decoding              \* the load whose buffer is in the loader, 0 for none

viewerVars == << viewerState, splatPoints, splatGroup, loads, decoding >>

loaderVars == << buffer, pc, headerLines, lineIdx, format, vertexCount,
                 vertexPropertyOrder, vertexPropertyTypes, inVertexElement, dataStart,
                 positions, colors, count, lines, li, v, offset, reads, outcome, error >>

vars == << loaderVars, viewerVars >>

\* null: of a modelUrl, and of splatPoints.
Null == <<-2>>
NoPoints == [load |-> 0, count |-> 0, positions |-> <<>>, colors |-> <<>>]

headerVars == << headerLines, lineIdx, format, vertexCount, vertexPropertyOrder,
                 vertexPropertyTypes, inVertexElement >>
arrayVars == << positions, colors >>
loopVars == << lines, li, v, offset, reads >>

Init ==
    /\ buffer \in Inputs
    /\ pc = "start"
    /\ headerLines = <<>> /\ lineIdx = 1
    /\ format = NoFormat /\ vertexCount = ZeroCount
    /\ vertexPropertyOrder = <<>> /\ vertexPropertyTypes = <<>>
    /\ inVertexElement = FALSE
    /\ dataStart = 0
    /\ positions = <<>> /\ colors = <<>> /\ count = 0
    /\ lines = <<>> /\ li = 1 /\ v = 0 /\ offset = 0 /\ reads = <<>>
    /\ outcome = "pending" /\ error = ""
    /\ viewerState = [modelUrl |-> Null] /\ splatPoints = NoPoints /\ splatGroup = <<>>
    /\ loads = <<>> /\ decoding = 0

\* throw new Error(msg), or a RangeError of the runtime: the call ends, the
\* caller gets no value.
Throw(msg) == pc' = "done" /\ outcome' = "error" /\ error' = msg /\ UNCHANGED count

\* return { positions, colors, vertexCount } and the facade's return points
Deliver(n) == pc' = "done" /\ outcome' = "points" /\ count' = n /\ UNCHANGED error

\* The else branch of the facade: the raw decoder.
RawDecode ==
    /\ pc = "start" /\ ~isPlyBuffer(buffer)
    /\ IF Float32ArrayThrows(buffer)
       THEN Throw("RangeError: byte length of Float32Array should be a multiple of 4")
            /\ UNCHANGED arrayVars
       ELSE IF rawCount(buffer) = 0
       THEN pc' = "done" /\ outcome' = "null" /\ UNCHANGED << arrayVars, count, error >>
       ELSE /\ positions' = rawPositions(buffer)
            /\ colors' = rawColors(buffer)
            /\ Deliver(rawCount(buffer))
    /\ UNCHANGED << buffer, headerVars, dataStart, loopVars, viewerVars >>

\* parsePly up to the header loop.
BeginParse ==
    /\ pc = "start" /\ isPlyBuffer(buffer)
    /\ IF headerEndIndexOf(buffer) = -1
       THEN Throw("PLY header does not contain \"end_header\".")
            /\ UNCHANGED headerLines
       ELSE /\ headerLines' = headerLinesOf(buffer)
            /\ pc' = "header"
            /\ UNCHANGED << outcome, error, count >>
    /\ UNCHANGED << buffer, lineIdx, format, vertexCount, vertexPropertyOrder,
                    vertexPropertyTypes, inVertexElement, dataStart, arrayVars, loopVars,
                    viewerVars >>

\* (tokens.length === 0 never holds: split gives at least one token.)
\* One pass of for (const line of headerLines).
ScanHeaderLine ==
    /\ pc = "header" /\ lineIdx <= Len(headerLines)
    /\ LET tokens == Tokens(headerLines[lineIdx])
           inV    == IF LeavesVertexElement(tokens) THEN FALSE ELSE inVertexElement
       IN  /\ format' = IF TokenAt(tokens, 0) = s_format THEN TokenAt(tokens, 1) ELSE format
           /\ IF IsVertexElement(tokens)
              THEN /\ vertexCount' = ParseInt(TokenAt(tokens, 2))
                   /\ inVertexElement' = TRUE
                   /\ UNCHANGED << vertexPropertyOrder, vertexPropertyTypes >>
              ELSE /\ inVertexElement' = inV
                   /\ UNCHANGED vertexCount
                   /\ IF CollectsProperty(inV, tokens)
                      THEN /\ vertexPropertyOrder' =
                                Append(vertexPropertyOrder, tokens[Len(tokens)])
                           /\ vertexPropertyTypes' =
                                Append(vertexPropertyTypes, TokenAt(tokens, 1))
                      ELSE UNCHANGED << vertexPropertyOrder, vertexPropertyTypes >>
    /\ lineIdx' = lineIdx + 1
    /\ UNCHANGED << buffer, pc, headerLines, dataStart, arrayVars, count, loopVars,
                    outcome, error, viewerVars >>

\* From the checks after the header loop to the choice of the decoder.
FinishHeader ==
    /\ pc = "header" /\ lineIdx > Len(headerLines)
    /\ IF HeaderError(format, vertexCount) # ""
       THEN Throw(HeaderError(format, vertexCount))
            /\ UNCHANGED << dataStart, arrayVars, lines >>
       ELSE /\ dataStart' = dataStartOf(buffer)
            /\ IF dataStartOf(buffer) > Len(buffer)
               THEN Throw("RangeError: Start offset is outside the bounds of the buffer")
                    /\ UNCHANGED << arrayVars, lines >>
               ELSE IF MissingPosition(vertexPropertyOrder)
               THEN Throw("PLY vertex does not contain x/y/z properties.")
                    /\ UNCHANGED << arrayVars, lines >>
               ELSE IF ArrayLength(vertexCount.n) < 0
               THEN Throw("RangeError: Invalid typed array length")
                    /\ UNCHANGED << arrayVars, lines >>
               ELSE /\ positions' = Zeros(ArrayLength(vertexCount.n))
                    /\ colors' = Zeros(ArrayLength(vertexCount.n))
                    /\ IF format = s_ascii
                       THEN /\ lines' = SplitLines(SliceFrom(buffer, dataStartOf(buffer)))
                            /\ pc' = "ascii"
                            /\ UNCHANGED << outcome, error, count >>
                       ELSE IF format \in {s_binary_little_endian, s_binary_big_endian}
                       THEN /\ pc' = "binary"
                            /\ UNCHANGED << lines, outcome, error, count >>
                       ELSE Throw("Unsupported PLY format") /\ UNCHANGED lines
    /\ UNCHANGED << buffer, headerVars, li, v, offset, reads, viewerVars >>

\* One pass of for (const line of lines); its break ends the loop and the
\* call returns.
AsciiLine ==
    /\ pc = "ascii" /\ li <= Len(lines)
    /\ LET line   == lines[li]
           tokens == Tokens(line)
           pos    == AsciiPosition(tokens, vertexPropertyOrder)
           col    == AsciiColor(tokens, vertexPropertyOrder)
       IN  IF SkipsLine(line, Len(vertexPropertyOrder))
           THEN li' = li + 1 /\ UNCHANGED << pc, arrayVars, v, outcome, error, count >>
           ELSE IF v >= vertexCount.n
           THEN Deliver(vertexCount.n) /\ UNCHANGED << arrayVars, v, li >>
           ELSE /\ positions' = SetTriple(positions, v, pos[1], pos[2], pos[3])
                /\ colors' = SetTriple(colors, v, col[1], col[2], col[3])
                /\ v' = v + 1 /\ li' = li + 1
                /\ UNCHANGED << pc, outcome, error, count >>
    /\ UNCHANGED << buffer, headerVars, dataStart, lines, offset, reads, viewerVars >>

\* One pass of for (let v = 0; v < vertexCount; v++).
BinaryRecord ==
    /\ pc = "binary" /\ v < vertexCount.n
    /\ LET acc == ReadRecord(Len(vertexPropertyOrder), SliceFrom(buffer, dataStart),
                             v, vertexPropertyOrder, vertexPropertyTypes,
                             format = s_binary_little_endian, offset)
       IN  /\ reads' = acc.reads
           /\ IF acc.thrown
              THEN Throw("RangeError: Offset is outside the bounds of the DataView")
                   /\ UNCHANGED << arrayVars, v, offset >>
              ELSE /\ positions' = SetTriple(positions, v, acc.x, acc.y, acc.z)
                   /\ colors' = SetTriple(colors, v, acc.r, acc.g, acc.b)
                   /\ offset' = offset + bytesPerVertexOf(vertexPropertyTypes)
                   /\ v' = v + 1
                   /\ UNCHANGED << pc, outcome, error, count >>
    /\ UNCHANGED << buffer, headerVars, dataStart, lines, li, viewerVars >>

\* The decoding loop has run out: parsePly returns and the facade wraps the
\* arrays into the points object.
ReturnPoints ==
    /\ \/ pc = "ascii" /\ li > Len(lines)
       \/ pc = "binary" /\ v >= vertexCount.n
    /\ Deliver(vertexCount.n)
    /\ UNCHANGED << buffer, headerVars, dataStart, arrayVars, loopVars, viewerVars >>

Next ==
    \/ RawDecode
    \/ BeginParse
    \/ ScanHeaderLine
    \/ FinishHeader
    \/ AsciiLine
    \/ BinaryRecord
    \/ ReturnPoints

Spec == Init /\ [][Next]_vars

(***************************************************************************)
(* What a file declares, read off the buffer without the loader's loop.    *)
(***************************************************************************)
Structured(buf) == StartsWith(buf, s_ply)

\* 'end_header' occurs in the first 64 KiB.
HasEndHeader(buf) ==
    \E i \in 1..(Min(Len(buf), HeaderWindow) - Len(s_end_header) + 1) :
        buf[i] = s_end_header[1] /\ SubSeq(buf, i, i + Len(s_end_header) - 1) = s_end_header

\* The header's lines as token lists, for a buffer with 'end_header' (none
\* without).
HeaderTokens(buf) ==
    IF HasEndHeader(buf)
    THEN LET ls == headerLinesOf(buf) IN [i \in 1..Len(ls) |-> Tokens(ls[i])] \o <<>>
    ELSE <<>>

IsFormatLine(t) == t[1] = s_format
IsVertexLine(t) == t[1] = s_element /\ TokenAt(t, 1) = s_vertex
IsOtherElementLine(t) == t[1] = s_element /\ TokenAt(t, 1) # s_vertex
IsPropertyLine(t) == t[1] = s_property

\* The last line of ht[1..n] that satisfies P, 0 if none.
LastLine(ht, n, P(_)) ==
    LET hits == {i \in 1..n : P(ht[i])}
    IN  IF hits = {} THEN 0 ELSE CHOOSE i \in hits : \A j \in hits : j <= i

\* Line i lies in the vertex element: an 'element vertex' line precedes it
\* with no line of another element in between.
InVertexAt(ht, i) ==
    \E j \in 1..(i - 1) :
        /\ IsVertexLine(ht[j])
        /\ \A k \in (j + 1)..i : ~IsOtherElementLine(ht[k])

\* The vertex property lines among ht[1..n], in file order.
VertexPropertyLines(ht, n) ==
    LET idx == {i \in 1..n : IsPropertyLine(ht[i]) /\ InVertexAt(ht, i)}
    IN  [k \in 1..Cardinality(idx) |-> ht[Kth(idx, k)]] \o <<>>

DeclNames(ht, n) ==
    LET pl == VertexPropertyLines(ht, n) IN [k \in 1..Len(pl) |-> pl[k][Len(pl[k])]]
DeclTypes(ht, n) ==
    LET pl == VertexPropertyLines(ht, n) IN [k \in 1..Len(pl) |-> TokenAt(pl[k], 1)]

\* What a header declares: the names and types of its vertex properties,
\* the token of its last format line, the count of its last 'element
\* vertex' line.
Declared(buf) ==
    LET ht == HeaderTokens(buf)
        f  == LastLine(ht, Len(ht), IsFormatLine)
        e  == LastLine(ht, Len(ht), IsVertexLine)
    IN  [ names  |-> DeclNames(ht, Len(ht)),
          types  |-> DeclTypes(ht, Len(ht)),
          format |-> IF f = 0 THEN Undefined ELSE TokenAt(ht[f], 1),
          count  |-> IF e = 0 THEN ZeroCount ELSE ParseInt(TokenAt(ht[e], 2)),
          hasFormatLine |-> f # 0,
          hasVertexLine |-> e # 0 ]

Has(names, name) == \E k \in 1..Len(names) : names[k] = name

\* The summed widths of the first n declared properties.
RECURSIVE WidthOfFirst(_, _)
WidthOfFirst(types, n) ==
    IF n = 0 THEN 0 ELSE WidthOfFirst(types, n - 1) + TypeWidth(types[n])

StrideOf(types) == WidthOfFirst(types, Len(types))

\* Point k (0-based) of a flat array.
Triple(arr, k) == << arr[3 * k + 1], arr[3 * k + 2], arr[3 * k + 3] >>

Returned == pc = "done" /\ outcome = "points"

(***************************************************************************)
(* C1.  Binary round trip: a file made of the reference header (binary     *)
(* little-endian, float x y z, uchar red green blue, N >= 1), one line     *)
(* feed and N 15-byte records decodes to N points, point v having the      *)
(* three floats of record v as position and its three colour bytes over    *)
(* 255 as colour, whatever the first byte of the first record is.          *)
(***************************************************************************)
ReferenceHeader(n) == PlyFile(s_binary_little_endian, n, XYZ \o RGB, <<>>)

IsReferenceFile(buf, n) ==
    StartsWith(buf, ReferenceHeader(n)) /\ Len(buf) = Len(ReferenceHeader(n)) + 15 * n

\* The float and the colour byte stored at a 0-based offset of the body.
FloatLE(body, at) == Val("f32", << body[at + 4], body[at + 3], body[at + 2], body[at + 1] >>)
ByteOver255(body, at) == [k |-> "num", v |-> Normalize(body[at + 1], 0), d |-> 255]

\* C1: a reference file of n records decodes to n points holding the floats
\* of its records and its colour bytes over 255, whatever its first body byte.
C1_BinaryRoundTrip ==
    \A n \in 1..MaxVertices :
        (pc = "done" /\ IsReferenceFile(buffer, n)) =>
            LET body == SliceFrom(buffer, Len(ReferenceHeader(n)))
            IN  /\ outcome = "points"
                /\ count = n
                /\ \A p \in 0..(n - 1) :
                    /\ Triple(positions, p) = << FloatLE(body, 15 * p),
                                                 FloatLE(body, 15 * p + 4),
                                                 FloatLE(body, 15 * p + 8) >>
                    /\ Triple(colors, p) = << ByteOver255(body, 15 * p + 12),
                                              ByteOver255(body, 15 * p + 13),
                                              ByteOver255(body, 15 * p + 14) >>

\* The same, for the files whose first record does not begin with a byte
\* that reads as white space: these the loader decodes exactly.
C1_RoundTripNoLeadingSpace ==
    \A n \in 1..MaxVertices :
        (pc = "done" /\ IsReferenceFile(buffer, n)
           /\ ~IsSpace(buffer[Len(ReferenceHeader(n)) + 1])) =>
            LET body == SliceFrom(buffer, Len(ReferenceHeader(n)))
            IN  /\ outcome = "points"
                /\ count = n
                /\ \A p \in 0..(n - 1) :
                    /\ Triple(positions, p) = << FloatLE(body, 15 * p),
                                                 FloatLE(body, 15 * p + 4),
                                                 FloatLE(body, 15 * p + 8) >>
                    /\ Triple(colors, p) = << ByteOver255(body, 15 * p + 12),
                                              ByteOver255(body, 15 * p + 13),
                                              ByteOver255(body, 15 * p + 14) >>

(***************************************************************************)
(* C2.  Colour defaulting: when a structured file decodes and its vertex   *)
(* properties do not hold all three colour properties, every one of the    *)
(* declared points has colour (1,1,1), also a point the data section has   *)
(* no usable line for.                                                     *)
(***************************************************************************)
HasChannel(names, long, short) == Has(names, long) \/ Has(names, short)

HasAllChannels(names) ==
    /\ HasChannel(names, s_red, s_r)
    /\ HasChannel(names, s_green, s_g)
    /\ HasChannel(names, s_blue, s_b)

White == << Num(1), Num(1), Num(1) >>

\* C2: without all three colour properties, every declared point is white.
C2_ColorDefault ==
    (Returned /\ Structured(buffer)) =>
        LET d == Declared(buffer)
        IN  ~HasAllChannels(d.names) =>
                \A p \in 0..(d.count.n - 1) : Triple(colors, p) = White

\* The points the decoder filled are white: the v points a text file had a
\* usable line for, and every point of a binary file.
C2_FilledPointsWhite ==
    (Returned /\ Structured(buffer)) =>
        LET d == Declared(buffer)
        IN  ~HasAllChannels(d.names) =>
                \A p \in 0..(v - 1) : Triple(colors, p) = White

(***************************************************************************)
(* C3.  Colour name preference: when a file that decodes colours declares  *)
(* both the long and the one-letter name of a channel, in either order,    *)
(* every point's channel is the value of the long-named property, in text  *)
(* and in binary files.                                                    *)
(***************************************************************************)
\* The usable data lines of a text file: not blank, with a token for every
\* declared property.
IsUsableLine(line, P) ==
    (\E i \in 1..Len(line) : ~IsSpace(line[i])) /\ Len(Tokens(line)) >= P

UsableLines(ls, n, P) ==
    LET idx == {i \in 1..n : IsUsableLine(ls[i], P)}
    IN  [k \in 1..Cardinality(idx) |-> ls[Kth(idx, k)]] \o <<>>

\* The value of declared property i (1-based) for point p (0-based): the
\* i-th token of the point's line, or the field at the property's place in
\* the point's record.
FieldOf(d, p, i) ==
    IF d.format = s_ascii
    THEN ParseFloat(Tokens(UsableLines(lines, Len(lines), Len(d.names))[p + 1])[i])
    ELSE readProperty(SliceFrom(buffer, dataStart), d.types[i],
                      p * StrideOf(d.types) + WidthOfFirst(d.types, i - 1),
                      d.format = s_binary_little_endian)

ChannelFromLong(d, c, long, short) ==
    (Has(d.names, long) /\ Has(d.names, short)) =>
        \A p \in 0..(v - 1) :
            colors[3 * p + c] = Div255(FieldOf(d, p, ArrayIndexOf(d.names, long) + 1))

\* C3: a channel declared under both names is decoded from the long name.
C3_LongNamePreferred ==
    (Returned /\ Structured(buffer)) =>
        LET d == Declared(buffer)
        IN  HasAllChannels(d.names) =>
                /\ ChannelFromLong(d, 1, s_red, s_r)
                /\ ChannelFromLong(d, 2, s_green, s_g)
                /\ ChannelFromLong(d, 3, s_blue, s_b)

(***************************************************************************)
(* C4.  The raw fallback is total: a buffer that does not begin with       *)
(* 'ply', of any byte length, raises no error; with N the number of whole  *)
(* groups of six among its whole floats, it yields the empty outcome       *)
(* exactly when N = 0 and otherwise N points, point i being floats 6i..6i+2*)
(* and 6i+3..6i+5 of the buffer unchanged.                                 *)
(***************************************************************************)
WholeGroups(buf) == (Len(buf) \div 4) \div 6

GroupAt(buf, i, from) ==
    << FloatLE(buf, 4 * (6 * i + from)),
       FloatLE(buf, 4 * (6 * i + from + 1)),
       FloatLE(buf, 4 * (6 * i + from + 2)) >>

\* C4: a buffer without the 'ply' mark never fails: it yields its whole
\* groups of six floats unchanged, and the empty outcome exactly for none.
C4_RawFallbackTotal ==
    (pc = "done" /\ ~Structured(buffer)) =>
        /\ outcome # "error"
        /\ outcome = "null" <=> WholeGroups(buffer) = 0
        /\ outcome = "points" =>
            /\ count = WholeGroups(buffer)
            /\ \A i \in 0..(count - 1) :
                /\ Triple(positions, i) = GroupAt(buffer, i, 0)
                /\ Triple(colors, i) = GroupAt(buffer, i, 3)

(***************************************************************************)
(* C5.  Structural header errors are fatal: a buffer that begins with      *)
(* 'ply' and (a) has no 'end_header' in its first 64 KiB, or (b) has no    *)
(* format line, or (c) has no vertex element or one of count zero, or (d)  *)
(* lacks x, y or z among its vertex properties, or (e) names a format      *)
(* other than ascii, binary_little_endian and binary_big_endian, ends the  *)
(* call with an error: no points and no empty outcome are returned.        *)
(***************************************************************************)
SupportedFormats == {s_ascii, s_binary_little_endian, s_binary_big_endian}

HasPosition(names) == Has(names, s_x) /\ Has(names, s_y) /\ Has(names, s_z)

HeaderFault(buf) ==
    LET d == Declared(buf)
    IN  \/ ~HasEndHeader(buf)
        \/ ~d.hasFormatLine
        \/ ~d.hasVertexLine
        \/ (~d.count.nan /\ d.count.n = 0)
        \/ ~HasPosition(d.names)
        \/ d.format \notin SupportedFormats

\* C5: a structured buffer with a header fault (a) to (e) ends in an error.
C5_HeaderErrorsFatal ==
    (pc = "done" /\ Structured(buffer) /\ HeaderFault(buffer)) => outcome = "error"

\* A header that is complete but for an unsupported format token has been
\* refused.
C5_Witness ==
    /\ pc = "done" /\ outcome = "error" /\ Structured(buffer)
    /\ LET d == Declared(buffer)
       IN  /\ HasEndHeader(buffer) /\ d.hasFormatLine /\ d.hasVertexLine
           /\ d.count.n >= 1 /\ HasPosition(d.names)
           /\ d.format \notin SupportedFormats

(***************************************************************************)
(* C6.  Truncated binary body: a binary file shorter than dataOffset +     *)
(* elementCount * stride ends the call with an error, and no field is      *)
(* decoded from bytes at or beyond the end of the buffer: a getter call    *)
(* that reaches past the end is the last one, and the call has failed.     *)
(***************************************************************************)
BinaryFormats == {s_binary_little_endian, s_binary_big_endian}

IsTruncated(buf) ==
    LET d == Declared(buf)
    IN  /\ HasEndHeader(buf)
        /\ d.format \in BinaryFormats
        /\ Len(buf) < dataStartOf(buf) + d.count.n * StrideOf(d.types)

PastEnd(rd) == dataStart + rd.at + rd.n > Len(buffer)

\* C6: a truncated binary file ends in an error, and a getter call that
\* reaches past the end of the buffer is the last call made and has failed.
C6_TruncatedBinary ==
    /\ (pc = "done" /\ Structured(buffer) /\ IsTruncated(buffer)) => outcome = "error"
    /\ \A k \in 1..Len(reads) :
          PastEnd(reads[k]) => (k = Len(reads) /\ outcome = "error")

\* The second record of a file was cut short: the call failed on it after
\* the first record was decoded.
C6_Witness ==
    /\ pc = "done" /\ outcome = "error" /\ Structured(buffer) /\ IsTruncated(buffer)
    /\ v = 1 /\ Len(reads) >= 2 /\ PastEnd(reads[Len(reads)])

(***************************************************************************)
(* C7.  Count invariant: a structured file that declares N >= 1 vertices,  *)
(* x, y and z and a supported format, once decoded, has count = N and      *)
(* position and colour arrays of 3 * N numbers each, however many data     *)
(* lines a text file holds.                                                *)
(***************************************************************************)
\* C7: a decoded file that declares N >= 1 vertices has count N and two
\* arrays of 3 * N numbers.
C7_CountInvariant ==
    (Returned /\ Structured(buffer)) =>
        LET d == Declared(buffer)
        IN  (d.count.n >= 1 /\ HasPosition(d.names) /\ d.format \in SupportedFormats) =>
                /\ count = d.count.n
                /\ Len(positions) = 3 * d.count.n
                /\ Len(colors) = 3 * d.count.n

\* A text file declaring two vertices was decoded from fewer than two
\* usable lines.
C7_Witness ==
    /\ Returned /\ format = s_ascii /\ count = 2 /\ v < 2
    /\ Len(positions) = 6

(***************************************************************************)
(* C8.  Vertex-property collection: after any number of header lines, the  *)
(* collected names and types are, in file order, those of the property     *)
(* lines met while in the vertex element (after an 'element vertex' line,  *)
(* before the next line of another element): the type is the token after   *)
(* 'property', the name the last token; and the flag tells whether the     *)
(* next line would be in the vertex element.                               *)
(***************************************************************************)
ScannedTokens == [i \in 1..(lineIdx - 1) |-> Tokens(headerLines[i])] \o <<>>

CollectedFrom(ht, n) ==
    /\ vertexPropertyOrder = DeclNames(ht, n)
    /\ vertexPropertyTypes = DeclTypes(ht, n)
    /\ inVertexElement =
         \E j \in 1..n : /\ IsVertexLine(ht[j])
                         /\ \A k \in (j + 1)..n : ~IsOtherElementLine(ht[k])

\* C8: during the header loop the collected names and types are those of
\* the property lines met in the vertex element, in file order.
C8_VertexPropertiesCollected ==
    pc = "header" => CollectedFrom(ScannedTokens, lineIdx - 1)

\* A header was scanned to its end in which two vertex properties were
\* collected and a property line of a later element was not.
C8_Witness ==
    /\ pc = "header" /\ lineIdx > Len(headerLines)
    /\ Len(vertexPropertyOrder) = 2
    /\ \E i \in 1..Len(headerLines) :
          /\ IsPropertyLine(Tokens(headerLines[i]))
          /\ \E j \in 1..(i - 1) : IsOtherElementLine(Tokens(headerLines[j]))

(***************************************************************************)
(* C9.  Text-mode slots: with P declared properties, point k is read from  *)
(* the (k+1)-th data line that is not blank and has at least P tokens;     *)
(* blank and shorter lines take no slot and raise no error, and usable     *)
(* lines after the first elementCount are ignored.                         *)
(***************************************************************************)
\* The 1-based index of a channel's property: the long name's, else the
\* short's.
ChannelIndex(names, long, short) ==
    IF Has(names, long) THEN ArrayIndexOf(names, long) + 1
    ELSE ArrayIndexOf(names, short) + 1

TokenValue(line, i) == ParseFloat(Tokens(line)[i])

\* C9: in text mode point k is read from the (k+1)-th usable line; other
\* lines take no slot, usable lines beyond the declared count are ignored.
C9_TextSlots ==
    (format = s_ascii /\ pc \in {"ascii", "done"} /\ outcome \in {"pending", "points"}) =>
        LET names == vertexPropertyOrder
            P     == Len(names)
            N     == vertexCount.n
            all   == UsableLines(lines, Len(lines), P)
            seen  == UsableLines(lines, li - 1, P)
        IN  /\ outcome = "pending" => v = Min(N, Len(seen))
            /\ outcome = "points" => v = Min(N, Len(all))
            /\ \A k \in 0..(v - 1) :
                /\ Triple(positions, k) =
                      << TokenValue(all[k + 1], ArrayIndexOf(names, s_x) + 1),
                         TokenValue(all[k + 1], ArrayIndexOf(names, s_y) + 1),
                         TokenValue(all[k + 1], ArrayIndexOf(names, s_z) + 1) >>
                /\ HasAllChannels(names) =>
                     Triple(colors, k) =
                      << Div255(TokenValue(all[k + 1], ChannelIndex(names, s_red, s_r))),
                         Div255(TokenValue(all[k + 1], ChannelIndex(names, s_green, s_g))),
                         Div255(TokenValue(all[k + 1], ChannelIndex(names, s_blue, s_b))) >>

\* A text file was decoded whose first line was too short to be used and
\* which held more usable lines than declared vertices.
C9_Witness ==
    /\ Returned /\ format = s_ascii
    /\ lines[1] # <<>> /\ ~IsUsableLine(lines[1], Len(vertexPropertyOrder))
    /\ Len(UsableLines(lines, Len(lines), Len(vertexPropertyOrder))) > vertexCount.n
    /\ v = vertexCount.n

(***************************************************************************)
(* C10.  Binary record layout: the stride is the sum of the widths of the  *)
(* declared properties (4 for an unrecognized type); field i of record v   *)
(* is read at v * stride + the widths of the properties before it, from    *)
(* the data offset, with the width of its type, and never past the end of  *)
(* its record; the next record starts one stride further.                  *)
(***************************************************************************)
\* C10: every field is read at v * stride + the widths before it, with the
\* width of its type, within its record.
C10_RecordLayout ==
    (format \in BinaryFormats /\ pc \in {"binary", "done"}) =>
        LET types == vertexPropertyTypes
            S     == StrideOf(types)
        IN  /\ pc = "binary" => offset = v * S
            /\ \A k \in 1..Len(reads) :
                /\ reads[k].i = k
                /\ reads[k].n = TypeWidth(types[k])
                /\ reads[k].at = reads[k].v * S + WidthOfFirst(types, k - 1)
                /\ reads[k].at + reads[k].n <= (reads[k].v + 1) * S

\* Two records were decoded of a file that declares a double and a property
\* of an unrecognized type.
C10_Witness ==
    /\ Returned /\ format \in BinaryFormats /\ v = 2
    /\ Len(reads) = Len(vertexPropertyTypes)
    /\ \E i \in 1..Len(vertexPropertyTypes) : vertexPropertyTypes[i] = s_double
    /\ \E i \in 1..Len(vertexPropertyTypes) : vertexPropertyTypes[i] = s_vertex

(***************************************************************************)
(* The page (src/viewer.js): the calls that load a model. Handlers run to  *)
(* completion; a call of loadModelFromUrl gives way at each await, and the *)
(* browser resumes the waiting calls in any order.                         *)
(***************************************************************************)
MaxRequests == 2
MaxFiles == 1

\* The addresses a request may name and what each serves: a binary file, a
\* text file and a raw buffer, of one point each.
url_a == <<97>>
url_b == <<98>>
url_c == <<99>>
Urls == {url_a, url_b, url_c}

Served(url) ==
    IF url = url_a THEN PlyFile(s_binary_little_endian, 1, XYZ, PatternBytes(12, 65))
    ELSE IF url = url_b THEN PlyFile(s_ascii, 1, XYZ, OneDataLine)
    ELSE PatternBytes(24, 7)

\* The local files of the file input: an empty one and one of five bytes.
file_empty == <<101>>
file_odd == <<111>>
Files == {file_empty, file_odd}

ContentOf(file) == IF file = file_empty THEN <<>> ELSE PatternBytes(5, 7)

\* What the user may have typed into the address field.
UrlTexts == {<<>>, <<32>>} \cup Urls \cup {<<32>> \o u \o <<32>> : u \in Urls}

\* The objects a state import may parse: with or without a modelUrl, and
\* complete or lacking a member the handler reads before it loads the model.
ImportedStates == [modelUrl : Urls \cup {Null}, complete : BOOLEAN]

UrlLoads == {k \in 1..Len(loads) : loads[k].kind = "url"}
FileLoads == {k \in 1..Len(loads) : loads[k].kind = "file"}

\* No handler is running.
AtRest == decoding = 0

\* The loader's variables between two calls, and at the start of a call.
LoaderLeft ==
    /\ buffer' = <<>> /\ pc' = "idle"
    /\ headerLines' = <<>> /\ lineIdx' = 1
    /\ format' = NoFormat /\ vertexCount' = ZeroCount
    /\ vertexPropertyOrder' = <<>> /\ vertexPropertyTypes' = <<>>
    /\ inVertexElement' = FALSE
    /\ dataStart' = 0
    /\ positions' = <<>> /\ colors' = <<>> /\ count' = 0
    /\ lines' = <<>> /\ li' = 1 /\ v' = 0 /\ offset' = 0 /\ reads' = <<>>
    /\ outcome' = "pending" /\ error' = ""

LoaderCalled(buf) ==
    /\ buffer' = buf /\ pc' = "start"
    /\ headerLines' = <<>> /\ lineIdx' = 1
    /\ format' = NoFormat /\ vertexCount' = ZeroCount
    /\ vertexPropertyOrder' = <<>> /\ vertexPropertyTypes' = <<>>
    /\ inVertexElement' = FALSE
    /\ dataStart' = 0
    /\ positions' = <<>> /\ colors' = <<>> /\ count' = 0
    /\ lines' = <<>> /\ li' = 1 /\ v' = 0 /\ offset' = 0 /\ reads' = <<>>
    /\ outcome' = "pending" /\ error' = ""

\* The page once the module has been evaluated: a model parameter in the
\* address has called loadModelFromUrl, which waits for its fetch.
ViewerInit ==
    /\ buffer = <<>> /\ pc = "idle"
    /\ headerLines = <<>> /\ lineIdx = 1
    /\ format = NoFormat /\ vertexCount = ZeroCount
    /\ vertexPropertyOrder = <<>> /\ vertexPropertyTypes = <<>>
    /\ inVertexElement = FALSE
    /\ dataStart = 0
    /\ positions = <<>> /\ colors = <<>> /\ count = 0
    /\ lines = <<>> /\ li = 1 /\ v = 0 /\ offset = 0 /\ reads = <<>>
    /\ outcome = "pending" /\ error = ""
    /\ splatPoints = NoPoints /\ splatGroup = <<>> /\ decoding = 0
    /\ \E param \in Urls \cup {Null} :
          /\ viewerState = [modelUrl |-> param]
          /\ loads = IF param = Null THEN <<>>
                     ELSE << [kind |-> "url", url |-> param, stage |-> "fetch"] >>

\* loadModelFromUrl(url) up to await fetch(url).
loadModelFromUrl(url) ==
    /\ viewerState' = [viewerState EXCEPT !.modelUrl = url]
    /\ loads' = Append(loads, [kind |-> "url", url |-> url, stage |-> "fetch"])

\* A click on the load button.
ClickLoadUrl ==
    /\ AtRest /\ Cardinality(UrlLoads) < MaxRequests
    /\ \E text \in UrlTexts :
          /\ Trim(text) # <<>>
          /\ loadModelFromUrl(Trim(text))
    /\ UNCHANGED << loaderVars, splatPoints, splatGroup, decoding >>

\* A message { type: 'loadModel', url }.
MessageLoadModel ==
    /\ AtRest /\ Cardinality(UrlLoads) < MaxRequests
    /\ \E url \in Urls : loadModelFromUrl(url)
    /\ UNCHANGED << loaderVars, splatPoints, splatGroup, decoding >>

\* A click on the import button, the text being the JSON of obj. A throw
\* between the assignment of viewerState and the test of its modelUrl ends
\* the handler in its catch.
ImportState ==
    /\ AtRest
    /\ \E obj \in ImportedStates :
          IF obj.complete /\ obj.modelUrl # Null
          THEN /\ Cardinality(UrlLoads) < MaxRequests
               /\ loadModelFromUrl(obj.modelUrl)
          ELSE /\ viewerState' = [modelUrl |-> obj.modelUrl]
               /\ UNCHANGED loads
    /\ UNCHANGED << loaderVars, splatPoints, splatGroup, decoding >>

\* A file chosen in the file input: the handler waits for its bytes.
FileChosen ==
    /\ AtRest /\ Cardinality(FileLoads) < MaxFiles
    /\ \E file \in Files :
          loads' = Append(loads, [kind |-> "file", url |-> file, stage |-> "body"])
    /\ UNCHANGED << loaderVars, viewerState, splatPoints, splatGroup, decoding >>

\* await fetch(url) ends: with a response that is ok, or with a rejection or
\* a response that is not ok, which the catch reports.
FetchSettles ==
    /\ AtRest
    /\ \E k \in 1..Len(loads), ok \in BOOLEAN :
          /\ loads[k].stage = "fetch"
          /\ loads' = [loads EXCEPT ![k].stage = IF ok THEN "body" ELSE "failed"]
    /\ UNCHANGED << loaderVars, viewerState, splatPoints, splatGroup, decoding >>

\* await arrayBuffer() ends: rejected, or with the bytes, and then
\* loadModelFromArrayBuffer calls the loader on them.
ArrayBufferSettles ==
    /\ AtRest
    /\ \E k \in 1..Len(loads), ok \in BOOLEAN :
          /\ loads[k].stage = "body"
          /\ IF ok
             THEN /\ loads' = [loads EXCEPT ![k].stage = "decode"]
                  /\ decoding' = k
                  /\ LoaderCalled(IF loads[k].kind = "url" THEN Served(loads[k].url)
                                  ELSE ContentOf(loads[k].url))
             ELSE /\ loads' = [loads EXCEPT ![k].stage = "failed"]
                  /\ UNCHANGED << loaderVars, decoding >>
    /\ UNCHANGED << viewerState, splatPoints, splatGroup >>

\* The object the facade returns.
PointsOf(k) == [load |-> k, count |-> count, positions |-> positions, colors |-> colors]

\* splatGroup.remove(object)
Remove(children, object) == SelectSeq(children, LAMBDA c : c # object)

\* The loader has returned or thrown: the rest of loadModelFromArrayBuffer.
ShowPoints ==
    /\ decoding # 0 /\ pc = "done"
    /\ IF outcome = "points"
       THEN /\ splatPoints' = PointsOf(decoding)
            /\ splatGroup' =
                 Append(IF splatPoints # NoPoints THEN Remove(splatGroup, splatPoints)
                        ELSE splatGroup,
                        PointsOf(decoding))
            /\ loads' = [loads EXCEPT ![decoding].stage = "shown"]
       ELSE /\ loads' = [loads EXCEPT ![decoding].stage =
                                        IF outcome = "null" THEN "empty" ELSE "failed"]
            /\ UNCHANGED << splatPoints, splatGroup >>
    /\ decoding' = 0
    /\ LoaderLeft
    /\ UNCHANGED viewerState

ViewerNext ==
    \/ ClickLoadUrl
    \/ MessageLoadModel
    \/ ImportState
    \/ FileChosen
    \/ FetchSettles
    \/ ArrayBufferSettles
    \/ RawDecode
    \/ BeginParse
    \/ ScanHeaderLine
    \/ FinishHeader
    \/ AsciiLine
    \/ BinaryRecord
    \/ ReturnPoints
    \/ ShowPoints

ViewerSpec == ViewerInit /\ [][ViewerNext]_vars

(***************************************************************************)
(* C11. Latest request wins.                                               *)
(***************************************************************************)
\* No call is waiting or decoding.
NoneOutstanding ==
    decoding = 0 /\ \A k \in 1..Len(loads) : loads[k].stage \in {"shown", "empty", "failed"}

\* Every request by address has put its points on display.
AllRequestsShown == \A k \in UrlLoads : loads[k].stage = "shown"

\* The address of the last request made.
LatestRequest == CHOOSE k \in UrlLoads : \A j \in UrlLoads : j <= k
LatestUrl == loads[LatestRequest].url

\* The address the points on display were fetched from.
DisplayedUrl == IF splatPoints = NoPoints THEN Null ELSE loads[splatPoints.load].url

\* The requests by address have all completed successfully, and nothing
\* else has loaded a model.
RequestsCompleted ==
    UrlLoads # {} /\ FileLoads = {} /\ NoneOutstanding /\ AllRequestsShown

\* The group never holds two point sets, and what it holds is splatPoints.
C11_AtMostOnePointSet ==
    /\ Len(splatGroup) <= 1
    /\ splatGroup = IF splatPoints = NoPoints THEN <<>> ELSE <<splatPoints>>

\* The part of C11 that names no viewerState: once the requests have
\* completed, the display shows the address requested last.
C11_DisplayedIsLatestRequested ==
    RequestsCompleted => DisplayedUrl = LatestUrl

\* C11: the group holds at most one point set at every moment, and once
\* every request has completed successfully the points on display come from
\* the address requested last, which is the one in viewerState.modelUrl.
C11_LatestRequestWins ==
    /\ Len(splatGroup) <= 1
    /\ RequestsCompleted =>
          /\ DisplayedUrl = LatestUrl
          /\ LatestUrl = viewerState.modelUrl

\* Two requests for different addresses were outstanding together.
C11_Overlap ==
    \E j, k \in UrlLoads :
        /\ j < k /\ loads[j].url # loads[k].url
        /\ loads[j].stage \in {"fetch", "body"} /\ loads[k].stage \in {"fetch", "body"}

====
